---- MODULE Spec2Model ----
(***************************************************************************)
(* A model of limage: the supervised emulator run of src/runner.rs, the    *)
(* image build pipeline of src/builder.rs, the configuration reader of     *)
(* src/config.rs and the command line of src/main.rs and src/args.rs.      *)
(*                                                                         *)
(* Rust's Option<T> is a sequence of length at most one: None is << >>,    *)
(* Some(x) is <<x>>.  A String is the sequence of its characters.          *)
(***************************************************************************)
EXTENDS Integers, Sequences, FiniteSets, TLC

VARIABLES
    config,       \* the Config handed to build and run (config.rs Config)
    \* runner.rs
    argv,         \* run_command: the program and arguments run hands to Command
    is_test,      \* run's is_test parameter
    rpc,          \* position of the thread executing run
    child,        \* the emulator process: its state and its exit status
    elapsed,      \* seconds gone by since wait_timeout was entered
    ops,          \* operations issued on the child handle, in order
    self_exit,    \* the emulator ended by itself (not by the harness's kill)
    test_result,  \* Option<TestResult> returned by handle_test_execution
    run_result,   \* what run returned: kind "none" | "Ok" | "Err"
    \* builder.rs: the files the pipeline reads and writes
    conf_present,   \* ./limine.conf exists
    kernel_present, \* the kernel binary to copy exists
    fs_ovmf,        \* firmware files present under target/ovmf
    limine_dir,     \* target/limine: whether it exists, and its files
    iso_root,       \* files staged under target/iso_root
    image,          \* the image at image_path: exists, installed
    fs_image,       \* what has been done to the filesystem image
    \* builder.rs: the builds
    active,         \* the builders that run builds
    bpc,            \* per builder: the next step of Builder::build
    blog,           \* per builder: steps executed by the current build
    bresult,        \* per builder: what the current build returned
    first_failed,   \* per builder: first external command that failed
    ran_after_failure, \* per builder: a step ran after a failed command
    start_limine,   \* per builder: limine_dir when the build started
    nbuilds,        \* builds started so far
    clones,         \* git clone commands issued so far
    prev_result,    \* per builder: result of its previous build
    tampered,       \* a bootloader file was deleted from outside
    \* config.rs
    toml,           \* the package.metadata.limage entry of Cargo.toml
    read_result,    \* what read_config returned
    \* main.rs, args.rs
    cmdline,        \* env::args(): the program name and its arguments
    mpc,            \* position of main
    command,        \* the LimageCommand parse_args returned
    main_result     \* how the process ended

rvars == <<argv, is_test, rpc, child, elapsed, ops, self_exit, test_result,
          run_result>>

envvars == <<conf_present, kernel_present>>

fsvars == <<fs_ovmf, limine_dir, iso_root, image, fs_image>>

histvars == <<active, start_limine, nbuilds, clones, prev_result, tampered>>

ctlvars == <<bpc, blog, bresult, first_failed, ran_after_failure>>

bvars == <<envvars, fsvars, histvars, ctlvars>>

cvars == <<toml, read_result>>

mvars == <<cmdline, mpc, command, main_result>>

vars == <<config, rvars, bvars, cvars, mvars>>

None == << >>
Some(x) == <<x>>

----------------------------------------------------------------------------
(* Bounds of the model *)

\* test_timeout is drawn from 0 .. MaxTimeout (a u32 in the code)
MaxTimeout == 2

\* builds started in one behaviour
MaxBuilds == 2

\* exit codes the emulator may end with, and configurable success codes
ExitCodeSet == {0, 1, 2, 5, 33}
SuccessCodeSet == {None, Some(0), Some(5), Some(33)}

----------------------------------------------------------------------------
(* Exit statuses: std::process::ExitStatus *)

Exited(c) == [kind |-> "exited", code |-> Some(c)]
Signaled == [kind |-> "signaled", code |-> None]
ExitStatusSet == {Exited(c) : c \in ExitCodeSet} \cup {Signaled}

\* ExitStatus::code(): Some(code) for a normal exit, None when ended by a signal
code(status) == status.code

NoChild == [state |-> "none", status |-> None]

----------------------------------------------------------------------------
(* runner.rs *)

\* a faulty classification: a normal shutdown (code 0) taken for success
Classify_ZeroIsSuccess(c) ==
    IF c = Some(33) THEN "Success"
    ELSE IF c = Some(0) THEN "Success"
    ELSE "Failure"

\* the match of exit_status.code() in handle_test_execution
Classify(c) ==
    IF c = Some(33) THEN "Success"
    ELSE IF c = Some(0) THEN "Failure"
    ELSE "Failure"

\* a faulty table: Timeout reported with Failure's code
ExitCodeOf_TimeoutAsFailure(tr) ==
    CASE tr = "Success" -> 0
      [] tr = "Failure" -> 1
      [] tr = "Timeout" -> 1

\* the match on TestResult in run
ExitCodeOf(tr) ==
    CASE tr = "Success" -> 0
      [] tr = "Failure" -> 1
      [] tr = "Timeout" -> 2

\* a faulty fallback: a missing code reported as 0
PassThrough_ZeroFallback(c) == IF c = None THEN 0 ELSE c[1]

\* status.code().unwrap_or(1) in run's normal mode
PassThrough(c) == IF c = None THEN 1 ELSE c[1]

\* a wait that gives up at once, before its deadline
DeadlineElapsed_Always == TRUE

\* a wait whose deadline never comes
DeadlineElapsed_Never == FALSE

\* Duration::from_secs(timeout_secs): the deadline of wait_timeout is over
DeadlineElapsed == elapsed >= config.test_timeout

Ok(c) == [kind |-> "Ok", code |-> Some(c), err |-> "none"]
Err(e) == [kind |-> "Err", code |-> None, err |-> e]
NotReturned == [kind |-> "none", code |-> None, err |-> "none"]

\* the panic of an index out of bounds: run does not return
Panicked == [kind |-> "panic", code |-> None, err |-> "index out of bounds"]

\* the placeholder of run_command: "{}"
Placeholder == <<"{", "}">>

RECURSIVE replace_FirstOnly(_, _, _)
\* a faulty replace that stops after the first match
replace_FirstOnly(s, from, to) ==
    IF Len(s) < Len(from) THEN s
    ELSE IF SubSeq(s, 1, Len(from)) = from
            THEN to \o SubSeq(s, Len(from) + 1, Len(s))
            ELSE <<s[1]>> \o replace_FirstOnly(Tail(s), from, to)

RECURSIVE replace(_, _, _)
\* str::replace(from, to), from not empty: the matches of from are found
\* from the left, without overlap, and each is replaced by to; what has been
\* put in is not searched again
replace(s, from, to) ==
    IF Len(s) < Len(from) THEN s
    ELSE IF SubSeq(s, 1, Len(from)) = from
            THEN to \o replace(SubSeq(s, Len(from) + 1, Len(s)), from, to)
            ELSE <<s[1]>> \o replace(Tail(s), from, to)

\* config.run_command.iter().map(|arg| arg.replace("{}", image_path))
render(cmd, image_path) ==
    [i \in 1 .. Len(cmd) |-> replace(cmd[i], Placeholder, image_path)]

\* "-drive" and format!("file={},format=raw", config.filesystem_image), pushed
\* when a filesystem is configured
DriveArgs(c) ==
    IF c.filesystem # None
       THEN << <<"-", "d", "r", "i", "v", "e">>,
               <<"f", "i", "l", "e", "=">> \o c.filesystem_image
                  \o <<",", "f", "o", "r", "m", "a", "t", "=", "r", "a", "w">> >>
       ELSE << >>

NoReboot == <<"-", "n", "o", "-", "r", "e", "b", "o", "o", "t">>

\* a faulty order: the flag pushed after the test arguments
ModeArgs_FlagLast(c, test) ==
    IF test
       THEN (IF c.test_args # None THEN c.test_args[1] ELSE << >>)
            \o (IF c.test_no_reboot THEN <<NoReboot>> ELSE << >>)
       ELSE IF c.run_args # None THEN c.run_args[1] ELSE << >>

\* the arguments run adds for its mode: "-no-reboot" and test_args in test
\* mode, run_args otherwise
ModeArgs(c, test) ==
    IF test
       THEN (IF c.test_no_reboot THEN <<NoReboot>> ELSE << >>)
            \o (IF c.test_args # None THEN c.test_args[1] ELSE << >>)
       ELSE IF c.run_args # None THEN c.run_args[1] ELSE << >>

\* the local run_command of run, when Command::new is reached
RunCommand(c, test) ==
    render(c.run_command, c.image_path) \o DriveArgs(c) \o ModeArgs(c, test)

\* run up to Command::new(&run_command[0]): the command line is put
\* together; indexing an empty one panics
assemble_command ==
    /\ rpc = "start"
    /\ argv' = RunCommand(config, is_test)
    /\ IF RunCommand(config, is_test) = << >>
          THEN /\ run_result' = Panicked
               /\ rpc' = "done"
          ELSE /\ rpc' = "spawn"
               /\ UNCHANGED run_result
    /\ UNCHANGED <<config, is_test, child, elapsed, ops, self_exit, test_result>>
    /\ UNCHANGED <<bvars, cvars, mvars>>

\* test mode: command.spawn() in handle_test_execution, entering wait_timeout
spawn_test ==
    /\ rpc = "spawn"
    /\ is_test
    /\ \/ /\ child' = [state |-> "running", status |-> None]
          /\ ops' = Append(ops, "spawn")
          /\ rpc' = "wait_timeout"
          /\ UNCHANGED run_result
       \/ /\ run_result' = Err("QemuTestCommand")
          /\ rpc' = "done"
          /\ UNCHANGED <<child, ops>>
    /\ UNCHANGED <<config, argv, is_test, elapsed, self_exit, test_result>>
    /\ UNCHANGED <<bvars, cvars, mvars>>

\* a faulty classification that takes an emulator ended by a signal for a
\* failed test
wait_timeout_some_SignalIsFailure ==
    /\ rpc = "wait_timeout"
    /\ child.state = "zombie"
    /\ child' = [child EXCEPT !.state = "reaped"]
    /\ ops' = Append(ops, "wait_timeout")
    /\ rpc' = "done"
    /\ IF code(child.status) = None
          THEN /\ test_result' = Some("Failure")
               /\ run_result' = Ok(ExitCodeOf("Failure"))
          ELSE /\ test_result' = Some(Classify(code(child.status)))
               /\ run_result' = Ok(ExitCodeOf(Classify(code(child.status))))
    /\ UNCHANGED <<config, argv, is_test, elapsed, self_exit>>
    /\ UNCHANGED <<bvars, cvars, mvars>>

\* child.wait_timeout(timeout) returns Some(exit_status): the child ended
\* and was reaped; the status is classified and mapped to run's exit code
wait_timeout_some ==
    /\ rpc = "wait_timeout"
    /\ child.state = "zombie"
    /\ child' = [child EXCEPT !.state = "reaped"]
    /\ ops' = Append(ops, "wait_timeout")
    /\ rpc' = "done"
    /\ IF code(child.status) = None
          THEN /\ run_result' = Err("NoQemuExitCode")
               /\ UNCHANGED test_result
          ELSE /\ test_result' = Some(Classify(code(child.status)))
               /\ run_result' = Ok(ExitCodeOf(Classify(code(child.status))))
    /\ UNCHANGED <<config, argv, is_test, elapsed, self_exit>>
    /\ UNCHANGED <<bvars, cvars, mvars>>

\* child.wait_timeout(timeout) returns None: deadline over, child running
wait_timeout_none ==
    /\ rpc = "wait_timeout"
    /\ child.state = "running"
    /\ DeadlineElapsed
    /\ ops' = Append(ops, "wait_timeout")
    /\ rpc' = "kill"
    /\ UNCHANGED <<config, argv, is_test, child, elapsed, self_exit, test_result, run_result>>
    /\ UNCHANGED <<bvars, cvars, mvars>>

\* child.wait_timeout(timeout) fails
wait_timeout_err ==
    /\ rpc = "wait_timeout"
    /\ ops' = Append(ops, "wait_timeout")
    /\ run_result' = Err("WaitWithTimeout")
    /\ rpc' = "done"
    /\ UNCHANGED <<config, argv, is_test, child, elapsed, self_exit, test_result>>
    /\ UNCHANGED <<bvars, cvars, mvars>>

\* a faulty timeout path that goes to the wait without killing
kill_NotIssued ==
    /\ rpc = "kill"
    /\ rpc' = "wait"
    /\ UNCHANGED <<config, argv, is_test, child, elapsed, ops, self_exit, test_result, run_result>>
    /\ UNCHANGED <<bvars, cvars, mvars>>

\* child.kill(): SIGKILL ends a running child; an error returns at once
kill ==
    /\ rpc = "kill"
    /\ ops' = Append(ops, "kill")
    /\ \/ /\ child' = IF child.state = "running"
                         THEN [state |-> "zombie", status |-> Signaled]
                         ELSE child
          /\ rpc' = "wait"
          /\ UNCHANGED run_result
       \/ /\ run_result' = Err("KillQemu")
          /\ rpc' = "done"
          /\ UNCHANGED child
    /\ UNCHANGED <<config, argv, is_test, elapsed, self_exit, test_result>>
    /\ UNCHANGED <<bvars, cvars, mvars>>

\* child.wait() after the kill: blocks until the child has ended, reaps it
wait ==
    /\ rpc = "wait"
    /\ ops' = Append(ops, "wait")
    /\ rpc' = "done"
    /\ \/ /\ child.state = "zombie"
          /\ child' = [child EXCEPT !.state = "reaped"]
          /\ test_result' = Some("Timeout")
          /\ run_result' = Ok(ExitCodeOf("Timeout"))
       \/ /\ run_result' = Err("WaitForQemu")
          /\ UNCHANGED <<child, test_result>>
    /\ UNCHANGED <<config, argv, is_test, elapsed, self_exit>>
    /\ UNCHANGED <<bvars, cvars, mvars>>

\* normal mode: command.status() spawns the emulator ...
status_spawn ==
    /\ rpc = "spawn"
    /\ ~is_test
    /\ \/ /\ child' = [state |-> "running", status |-> None]
          /\ ops' = Append(ops, "spawn")
          /\ rpc' = "status"
          /\ UNCHANGED run_result
       \/ /\ run_result' = Err("QemuRunCommand")
          /\ rpc' = "done"
          /\ UNCHANGED <<child, ops>>
    /\ UNCHANGED <<config, argv, is_test, elapsed, self_exit, test_result>>
    /\ UNCHANGED <<bvars, cvars, mvars>>

\* ... and waits for it with no deadline; its code is passed through
status_wait ==
    /\ rpc = "status"
    /\ rpc' = "done"
    /\ ops' = Append(ops, "wait")
    /\ \/ /\ child.state = "zombie"
          /\ child' = [child EXCEPT !.state = "reaped"]
          /\ run_result' = Ok(PassThrough(code(child.status)))
       \/ /\ run_result' = Err("QemuRunCommand")
          /\ UNCHANGED child
    /\ UNCHANGED <<config, argv, is_test, elapsed, self_exit, test_result>>
    /\ UNCHANGED <<bvars, cvars, mvars>>

----------------------------------------------------------------------------
(* The environment of the run: the emulator process and the clock *)

\* the emulator ends by itself, with an exit code or by a signal
ChildExit ==
    /\ child.state = "running"
    /\ \E st \in ExitStatusSet : child' = [state |-> "zombie", status |-> st]
    /\ self_exit' = TRUE
    /\ UNCHANGED <<config, argv, is_test, rpc, elapsed, ops, test_result, run_result>>
    /\ UNCHANGED <<bvars, cvars, mvars>>

\* a second goes by while the harness is in wait_timeout
Tick ==
    /\ rpc = "wait_timeout"
    /\ elapsed < config.test_timeout
    /\ elapsed' = elapsed + 1
    /\ UNCHANGED <<config, argv, is_test, rpc, child, ops, self_exit, test_result, run_result>>
    /\ UNCHANGED <<bvars, cvars, mvars>>

----------------------------------------------------------------------------
(* builder.rs: files and external commands *)

\* the builders; SpecBuild runs one
BuilderIds == {1, 2}

\* the bootloader files copy_limine_binary copies, in the order it copies them
RequiredFiles ==
    <<"limine-bios.sys", "limine-bios-cd.bin", "limine-uefi-cd.bin",
      "BOOTX64.EFI", "BOOTIA32.EFI">>

RequiredSet == {RequiredFiles[i] : i \in 1 .. Len(RequiredFiles)}

\* how a std::process::Command ends: it ran and exited with status 0, it ran
\* and exited with another status, or it could not be launched (io::Error)
Outcomes == {"ok", "nonzero", "launch_fail"}

\* the external commands of the pipeline
ExternalCommands ==
    {"curl_code", "curl_vars", "git_clone", "xorriso", "limine_bios_install",
     "filesystem_builder", "dd", "mkfs_fat", "mmd", "mcopy",
     "mkfs_ext4", "mount", "cp", "umount"}

\* filesystem kinds a Cargo.toml may name, as strings of characters
FilesystemSet ==
    {None,
     Some(<<"f", "a", "t", "3", "2">>),
     Some(<<"e", "x", "t", "4">>),
     Some(<<"n", "t", "f", "s">>)}

\* str::to_uppercase on the characters above
UpperChar(c) ==
    CASE c = "f" -> "F" [] c = "a" -> "A" [] c = "t" -> "T" [] c = "e" -> "E"
      [] c = "x" -> "X" [] c = "n" -> "N" [] c = "s" -> "S" [] OTHER -> c

to_uppercase(s) == [i \in 1 .. Len(s) |-> UpperChar(s[i])]

starts_with(s, prefix) ==
    /\ Len(s) >= Len(prefix)
    /\ SubSeq(s, 1, Len(prefix)) = prefix

\* the dispatch on config.filesystem in build_filesystem
FilesystemKind(fs) ==
    IF starts_with(to_uppercase(fs), <<"F", "A", "T">>) THEN "fat"
    ELSE IF to_uppercase(fs) = <<"E", "X", "T", "4">> THEN "ext4"
    ELSE "unsupported"

\* a faulty test that always finds the directory missing
limine_missing_Always == TRUE

\* !Path::new("./target/limine").exists() in clone_limine_binary
limine_missing == ~limine_dir.exists

\* the longest prefix of RequiredFiles whose files are all in the directory:
\* copy_limine_binary copies these and stops at the first missing one
RECURSIVE CopiedPrefix(_, _)
CopiedPrefix(files, i) ==
    IF i > Len(RequiredFiles) \/ RequiredFiles[i] \notin files
       THEN {}
       ELSE {RequiredFiles[i]} \cup CopiedPrefix(files, i + 1)

----------------------------------------------------------------------------
(* builder.rs: bookkeeping shared by the steps of Builder::build *)

\* step is executed by builder p; failed says an external command did not
\* end with status 0
Record(p, step, failed) ==
    /\ blog' = [blog EXCEPT ![p] = Append(@, step)]
    /\ ran_after_failure' =
          [ran_after_failure EXCEPT ![p] = @ \/ first_failed[p] # None]
    /\ first_failed' =
          [first_failed EXCEPT ![p] = IF @ = None /\ failed THEN Some(step) ELSE @]

\* build returns r: Ok(0), a BuildError, or a panic of an unwrap
Return(p, r) ==
    /\ bresult' = [bresult EXCEPT ![p] = r]
    /\ bpc' = [bpc EXCEPT ![p] = "done"]

\* build goes on with the step next; "done" is the Ok(0) at the end of build
Continue(p, next) ==
    IF next = "done"
       THEN Return(p, "Ok")
       ELSE /\ bpc' = [bpc EXCEPT ![p] = next]
            /\ UNCHANGED bresult

\* Command::output().map_err(|_| err)?: only a command that cannot be
\* launched is an error; its exit status is not looked at
output(p, step, out, err, next) ==
    /\ Record(p, step, out # "ok")
    /\ IF out = "launch_fail" THEN Return(p, err) ELSE Continue(p, next)

\* Command::status().map_err(|_| err).unwrap_or(ExitStatus::default()):
\* neither a failed launch nor the exit status is looked at
status_unwrap_or(p, step, out, next) ==
    /\ Record(p, step, out # "ok")
    /\ Continue(p, next)

\* where build goes after create_limine_iso
AfterIso ==
    IF config.filesystem = None THEN "done"
    ELSE IF config.filesystem_builder # None THEN "filesystem_builder"
    ELSE "dd"

\* a faulty dispatch that formats every kind it does not know as FAT
AfterDd_FallbackFat ==
    CASE FilesystemKind(config.filesystem[1]) = "fat" -> "mkfs_fat"
      [] FilesystemKind(config.filesystem[1]) = "ext4" -> "mkfs_ext4"
      [] OTHER -> "mkfs_fat"

\* where build_filesystem goes after dd
AfterDd ==
    CASE FilesystemKind(config.filesystem[1]) = "fat" -> "mkfs_fat"
      [] FilesystemKind(config.filesystem[1]) = "ext4" -> "mkfs_ext4"
      [] OTHER -> "unsupported"

----------------------------------------------------------------------------
(* builder.rs: the steps of Builder::build *)

\* Builder::build is entered
build_start(p) ==
    /\ p \in active
    /\ bpc[p] \in {"idle", "done"}
    /\ nbuilds < MaxBuilds
    /\ nbuilds' = nbuilds + 1
    /\ bpc' = [bpc EXCEPT ![p] = "prepare_ovmf_code"]
    /\ blog' = [blog EXCEPT ![p] = << >>]
    /\ prev_result' = [prev_result EXCEPT ![p] = bresult[p]]
    /\ bresult' = [bresult EXCEPT ![p] = "none"]
    /\ first_failed' = [first_failed EXCEPT ![p] = None]
    /\ ran_after_failure' = [ran_after_failure EXCEPT ![p] = FALSE]
    /\ start_limine' = [start_limine EXCEPT ![p] = limine_dir]
    /\ UNCHANGED <<config, cvars, rvars, envvars, fsvars, active, clones, tampered>>

\* prepare_ovmf_files: create_dir_all("./target/ovmf").unwrap(), then the
\* first prepare_ovmf_file (curl -Lo ovmf-code)
prepare_ovmf_code(p) ==
    /\ bpc[p] = "prepare_ovmf_code"
    /\ \/ /\ Record(p, "create_dir_ovmf", FALSE)
          /\ Return(p, "panic")
          /\ UNCHANGED fs_ovmf
       \/ \E out \in Outcomes :
             /\ output(p, "curl_code", out, "DownloadOvmfFirmwareFailed",
                       "prepare_ovmf_vars")
             /\ fs_ovmf' = IF out = "ok" THEN fs_ovmf \cup {"code"} ELSE fs_ovmf
    /\ UNCHANGED <<config, cvars, mvars, rvars, envvars, histvars>>
    /\ UNCHANGED <<limine_dir, iso_root, image, fs_image>>

\* the second prepare_ovmf_file (curl -Lo ovmf-vars)
prepare_ovmf_vars(p) ==
    /\ bpc[p] = "prepare_ovmf_vars"
    /\ \E out \in Outcomes :
          /\ output(p, "curl_vars", out, "DownloadOvmfFirmwareFailed",
                    "clone_limine_check")
          /\ fs_ovmf' = IF out = "ok" THEN fs_ovmf \cup {"vars"} ELSE fs_ovmf
    /\ UNCHANGED <<config, cvars, mvars, rvars, envvars, histvars>>
    /\ UNCHANGED <<limine_dir, iso_root, image, fs_image>>

\* prepare_limine_files: create_dir_all("./target").unwrap(), then the test
\* of clone_limine_binary whether ./target/limine exists
clone_limine_check(p) ==
    /\ bpc[p] = "clone_limine_check"
    /\ \/ /\ Record(p, "create_dir_target", FALSE)
          /\ Return(p, "panic")
       \/ /\ Record(p, "limine_exists", FALSE)
          /\ Continue(p, IF limine_missing THEN "clone_limine_binary"
                                           ELSE "copy_limine_config")
    /\ UNCHANGED <<config, cvars, mvars, rvars, envvars, fsvars, histvars>>

\* a clone step that excludes a second clone: it looks at the directory once
\* more and goes on without cloning when another build has made it meanwhile
clone_limine_binary_Rechecks(p) ==
    /\ bpc[p] = "clone_limine_binary"
    /\ IF limine_missing
          THEN \/ /\ Record(p, "create_dir_limine", FALSE)
                  /\ Return(p, "panic")
                  /\ UNCHANGED <<limine_dir, clones>>
               \/ \E out \in Outcomes :
                     /\ out = "ok" => (~limine_dir.exists \/ limine_dir.files = {})
                     /\ output(p, "git_clone", out, "CloneLimineBinaryFailed",
                               "copy_limine_config")
                     /\ clones' = clones + 1
                     /\ limine_dir' =
                           [exists |-> TRUE,
                            files |-> IF out = "ok" THEN RequiredSet
                                      ELSE IF limine_dir.exists THEN limine_dir.files
                                      ELSE {}]
          ELSE /\ Continue(p, "copy_limine_config")
               /\ UNCHANGED <<blog, first_failed, ran_after_failure>>
               /\ UNCHANGED <<limine_dir, clones>>
    /\ UNCHANGED <<config, cvars, mvars, rvars, envvars>>
    /\ UNCHANGED <<fs_ovmf, iso_root, image, fs_image>>
    /\ UNCHANGED <<active, start_limine, nbuilds, prev_result, tampered>>

\* a clone step that creates the directory only for a clone that succeeds: a
\* failed clone leaves no directory behind
clone_limine_binary_CleansUp(p) ==
    /\ bpc[p] = "clone_limine_binary"
    /\ \/ /\ Record(p, "create_dir_limine", FALSE)
          /\ Return(p, "panic")
          /\ UNCHANGED <<limine_dir, clones>>
       \/ \E out \in Outcomes :
             /\ out = "ok" => (~limine_dir.exists \/ limine_dir.files = {})
             /\ output(p, "git_clone", out, "CloneLimineBinaryFailed",
                       "copy_limine_config")
             /\ clones' = clones + 1
             /\ limine_dir' =
                   IF out = "ok" THEN [exists |-> TRUE, files |-> RequiredSet]
                   ELSE limine_dir
    /\ UNCHANGED <<config, cvars, mvars, rvars, envvars>>
    /\ UNCHANGED <<fs_ovmf, iso_root, image, fs_image>>
    /\ UNCHANGED <<active, start_limine, nbuilds, prev_result, tampered>>

\* clone_limine_binary, directory missing: create_dir_all(...).unwrap(), then
\* git clone into it; git fills an empty directory only
clone_limine_binary(p) ==
    /\ bpc[p] = "clone_limine_binary"
    /\ \/ /\ Record(p, "create_dir_limine", FALSE)
          /\ Return(p, "panic")
          /\ UNCHANGED <<limine_dir, clones>>
       \/ \E out \in Outcomes :
             /\ out = "ok" => (~limine_dir.exists \/ limine_dir.files = {})
             /\ output(p, "git_clone", out, "CloneLimineBinaryFailed",
                       "copy_limine_config")
             /\ clones' = clones + 1
             /\ limine_dir' =
                   [exists |-> TRUE,
                    files |-> IF out = "ok" THEN RequiredSet
                              ELSE IF limine_dir.exists THEN limine_dir.files
                              ELSE {}]
    /\ UNCHANGED <<config, cvars, mvars, rvars, envvars>>
    /\ UNCHANGED <<fs_ovmf, iso_root, image, fs_image>>
    /\ UNCHANGED <<active, start_limine, nbuilds, prev_result, tampered>>

\* a faulty config staging that goes on to kernel staging, past the
\* bootloader binaries
copy_limine_config_SkipsBinaries(p) ==
    /\ bpc[p] = "copy_limine_config"
    /\ \/ /\ Record(p, "create_dir_iso_boot_limine", FALSE)
          /\ Return(p, "panic")
          /\ UNCHANGED iso_root
       \/ /\ Record(p, "copy_limine_config", FALSE)
          /\ IF conf_present
                THEN /\ iso_root' = iso_root \cup {"limine.conf"}
                     /\ Continue(p, "copy_kernel")
                ELSE /\ Return(p, "CopyLimineConfigFailed")
                     /\ UNCHANGED iso_root
    /\ UNCHANGED <<config, cvars, mvars, rvars, envvars, histvars>>
    /\ UNCHANGED <<fs_ovmf, limine_dir, image, fs_image>>

\* copy_limine_config: create_dir_all(...).unwrap(), then fs::copy of
\* ./limine.conf into the ISO root
copy_limine_config(p) ==
    /\ bpc[p] = "copy_limine_config"
    /\ \/ /\ Record(p, "create_dir_iso_boot_limine", FALSE)
          /\ Return(p, "panic")
          /\ UNCHANGED iso_root
       \/ /\ Record(p, "copy_limine_config", FALSE)
          /\ IF conf_present
                THEN /\ iso_root' = iso_root \cup {"limine.conf"}
                     /\ Continue(p, "copy_limine_binary")
                ELSE /\ Return(p, "CopyLimineConfigFailed")
                     /\ UNCHANGED iso_root
    /\ UNCHANGED <<config, cvars, mvars, rvars, envvars, histvars>>
    /\ UNCHANGED <<fs_ovmf, limine_dir, image, fs_image>>

\* copy_limine_binary: create_dir_all(...).unwrap(), then the five fs::copy
\* calls in order, each `?`: the first missing file ends the build
copy_limine_binary(p) ==
    /\ bpc[p] = "copy_limine_binary"
    /\ \/ /\ Record(p, "create_dir_iso_efi_boot", FALSE)
          /\ Return(p, "panic")
          /\ UNCHANGED iso_root
       \/ LET files == IF limine_dir.exists THEN limine_dir.files ELSE {}
          IN  /\ Record(p, "copy_limine_binary", FALSE)
              /\ iso_root' = iso_root \cup CopiedPrefix(files, 1)
              /\ IF RequiredSet \subseteq files
                    THEN Continue(p, "copy_kernel")
                    ELSE Return(p, "CopyLimineBinaryFailed")
    /\ UNCHANGED <<config, cvars, mvars, rvars, envvars, histvars>>
    /\ UNCHANGED <<fs_ovmf, limine_dir, image, fs_image>>

\* a kernel staging that rolls back: when the kernel cannot be copied it
\* removes what the earlier steps have staged
copy_kernel_RollsBack(p) ==
    /\ bpc[p] = "copy_kernel"
    /\ \/ /\ Record(p, "create_dir_iso_boot_kernel", FALSE)
          /\ Return(p, "CreateDirectoryFailed")
          /\ UNCHANGED iso_root
       \/ /\ Record(p, "copy_kernel", FALSE)
          /\ IF kernel_present
                THEN /\ iso_root' = iso_root \cup {"kernel"}
                     /\ Continue(p, "create_raw_iso")
                ELSE /\ Return(p, "CopyKernelBinaryFailed")
                     /\ iso_root' = {}
    /\ UNCHANGED <<config, cvars, mvars, rvars, envvars, histvars>>
    /\ UNCHANGED <<fs_ovmf, limine_dir, image, fs_image>>

\* copy_kernel: create_dir_all(...) mapped to CreateDirectoryFailed, then
\* fs::copy of the kernel binary
copy_kernel(p) ==
    /\ bpc[p] = "copy_kernel"
    /\ \/ /\ Record(p, "create_dir_iso_boot_kernel", FALSE)
          /\ Return(p, "CreateDirectoryFailed")
          /\ UNCHANGED iso_root
       \/ /\ Record(p, "copy_kernel", FALSE)
          /\ IF kernel_present
                THEN /\ iso_root' = iso_root \cup {"kernel"}
                     /\ Continue(p, "create_raw_iso")
                ELSE /\ Return(p, "CopyKernelBinaryFailed")
                     /\ UNCHANGED iso_root
    /\ UNCHANGED <<config, cvars, mvars, rvars, envvars, histvars>>
    /\ UNCHANGED <<fs_ovmf, limine_dir, image, fs_image>>

\* create_limine_iso: create_dir_all(parent) mapped to CreateDirectoryFailed,
\* then create_raw_iso (xorriso), which writes the image when it succeeds
create_raw_iso(p) ==
    /\ bpc[p] = "create_raw_iso"
    /\ \/ /\ Record(p, "create_dir_image_parent", FALSE)
          /\ Return(p, "CreateDirectoryFailed")
          /\ UNCHANGED image
       \/ \E out \in Outcomes :
             /\ output(p, "xorriso", out, "CreateLimineIsoFailed",
                       "install_limine_to_iso")
             /\ image' = IF out = "ok"
                            THEN [exists |-> TRUE, installed |-> FALSE]
                            ELSE image
    /\ UNCHANGED <<config, cvars, mvars, rvars, envvars, histvars>>
    /\ UNCHANGED <<fs_ovmf, limine_dir, iso_root, fs_image>>

\* install_limine_to_iso (target/limine/limine bios-install), which can
\* succeed only on an image that exists; the last step unless a filesystem
\* is configured
install_limine_to_iso(p) ==
    /\ bpc[p] = "install_limine_to_iso"
    /\ \E out \in Outcomes :
          /\ out = "ok" => image.exists
          /\ output(p, "limine_bios_install", out, "InstallLimineToIsoFailed",
                    AfterIso)
          /\ image' = IF out = "ok" THEN [image EXCEPT !.installed = TRUE]
                                    ELSE image
    /\ UNCHANGED <<config, cvars, mvars, rvars, envvars, histvars>>
    /\ UNCHANGED <<fs_ovmf, limine_dir, iso_root, fs_image>>

\* build_filesystem, filesystem_builder configured: the builder command
build_filesystem_builder(p) ==
    /\ bpc[p] = "filesystem_builder"
    /\ \E out \in Outcomes :
          output(p, "filesystem_builder", out, "CreateDirectoryFailed", "dd")
    /\ UNCHANGED <<config, cvars, mvars, rvars, envvars, fsvars, histvars>>

\* build_filesystem: dd writes the zero-filled image, then the dispatch on
\* the filesystem kind, whose last arm is Err(FormatImgFailed)
build_filesystem_dd(p) ==
    /\ bpc[p] = "dd"
    /\ \E out \in Outcomes :
          /\ Record(p, "dd", out # "ok")
          /\ fs_image' = IF out = "ok" THEN {"raw"} ELSE fs_image
          /\ IF out = "launch_fail" THEN Return(p, "CreateEmptyImgFailed")
             ELSE IF AfterDd = "unsupported" THEN Return(p, "FormatImgFailed")
             ELSE Continue(p, AfterDd)
    /\ UNCHANGED <<config, cvars, mvars, rvars, envvars, histvars>>
    /\ UNCHANGED <<fs_ovmf, limine_dir, iso_root, image>>

\* build_filesystem_fat: mkfs.fat, whose result is discarded
build_filesystem_fat_mkfs(p) ==
    /\ bpc[p] = "mkfs_fat"
    /\ \E out \in Outcomes :
          /\ out = "ok" => "raw" \in fs_image
          /\ status_unwrap_or(p, "mkfs_fat", out, "mmd")
          /\ fs_image' = IF out = "ok" THEN fs_image \cup {"formatted"}
                                       ELSE fs_image
    /\ UNCHANGED <<config, cvars, mvars, rvars, envvars, histvars>>
    /\ UNCHANGED <<fs_ovmf, limine_dir, iso_root, image>>

\* build_filesystem_fat: mmd makes the target directory in the image
build_filesystem_fat_mmd(p) ==
    /\ bpc[p] = "mmd"
    /\ \E out \in Outcomes :
          /\ out = "ok" => "formatted" \in fs_image
          /\ output(p, "mmd", out, "AddImgDirectoryFailed", "mcopy")
          /\ fs_image' = IF out = "ok" THEN fs_image \cup {"dir"} ELSE fs_image
    /\ UNCHANGED <<config, cvars, mvars, rvars, envvars, histvars>>
    /\ UNCHANGED <<fs_ovmf, limine_dir, iso_root, image>>

\* build_filesystem_fat: mcopy copies the source directory into the image
build_filesystem_fat_mcopy(p) ==
    /\ bpc[p] = "mcopy"
    /\ \E out \in Outcomes :
          /\ out = "ok" => "dir" \in fs_image
          /\ output(p, "mcopy", out, "AddImgContentFailed", "done")
          /\ fs_image' = IF out = "ok" THEN fs_image \cup {"content"}
                                       ELSE fs_image
    /\ UNCHANGED <<config, cvars, mvars, rvars, envvars, histvars>>
    /\ UNCHANGED <<fs_ovmf, limine_dir, iso_root, image>>

\* build_filesystem_ext4: mkfs.ext4, whose result is discarded
build_filesystem_ext4_mkfs(p) ==
    /\ bpc[p] = "mkfs_ext4"
    /\ \E out \in Outcomes :
          /\ out = "ok" => "raw" \in fs_image
          /\ status_unwrap_or(p, "mkfs_ext4", out, "mount")
          /\ fs_image' = IF out = "ok" THEN fs_image \cup {"formatted"}
                                       ELSE fs_image
    /\ UNCHANGED <<config, cvars, mvars, rvars, envvars, histvars>>
    /\ UNCHANGED <<fs_ovmf, limine_dir, iso_root, image>>

\* build_filesystem_ext4: mount -o loop image /mnt, result discarded
build_filesystem_ext4_mount(p) ==
    /\ bpc[p] = "mount"
    /\ \E out \in Outcomes :
          /\ out = "ok" => "formatted" \in fs_image
          /\ status_unwrap_or(p, "mount", out, "cp")
          /\ fs_image' = IF out = "ok" THEN fs_image \cup {"mounted"}
                                       ELSE fs_image
    /\ UNCHANGED <<config, cvars, mvars, rvars, envvars, histvars>>
    /\ UNCHANGED <<fs_ovmf, limine_dir, iso_root, image>>

\* build_filesystem_ext4: cp -r source /mnt/, result discarded; it reaches
\* the image only when the image is mounted
build_filesystem_ext4_cp(p) ==
    /\ bpc[p] = "cp"
    /\ \E out \in Outcomes :
          /\ status_unwrap_or(p, "cp", out, "umount")
          /\ fs_image' = IF out = "ok" /\ "mounted" \in fs_image
                            THEN fs_image \cup {"content"}
                            ELSE fs_image
    /\ UNCHANGED <<config, cvars, mvars, rvars, envvars, histvars>>
    /\ UNCHANGED <<fs_ovmf, limine_dir, iso_root, image>>

\* build_filesystem_ext4: umount /mnt, result discarded; then Ok(0)
build_filesystem_ext4_umount(p) ==
    /\ bpc[p] = "umount"
    /\ \E out \in Outcomes :
          /\ out = "ok" => "mounted" \in fs_image
          /\ status_unwrap_or(p, "umount", out, "done")
          /\ fs_image' = IF out = "ok" THEN fs_image \ {"mounted"} ELSE fs_image
    /\ UNCHANGED <<config, cvars, mvars, rvars, envvars, histvars>>
    /\ UNCHANGED <<fs_ovmf, limine_dir, iso_root, image>>

----------------------------------------------------------------------------
(* The environment of the builds *)

\* between two builds, somebody deletes one bootloader file
external_delete_file ==
    /\ \A p \in active : bpc[p] \in {"idle", "done"}
    /\ nbuilds < MaxBuilds
    /\ ~tampered
    /\ limine_dir.exists
    /\ \E f \in limine_dir.files :
          limine_dir' = [limine_dir EXCEPT !.files = @ \ {f}]
    /\ tampered' = TRUE
    /\ UNCHANGED <<config, cvars, mvars, rvars, envvars, ctlvars>>
    /\ UNCHANGED <<fs_ovmf, iso_root, image, fs_image>>
    /\ UNCHANGED <<active, start_limine, nbuilds, clones, prev_result>>

----------------------------------------------------------------------------
(* Specification of one call of runner::run *)

\* a TOML integer is a signed 64-bit number: its value is hi * 2^32 + lo,
\* negated when neg
TomlInteger(neg, hi, lo) == [type |-> "Integer", neg |-> neg, hi |-> hi, lo |-> lo]
TomlString(str) == [type |-> "String", str |-> str]
TomlBoolean(b) == [type |-> "Boolean", b |-> b]
TomlArray(a) == [type |-> "Array", a |-> a]

\* Cargo.toml without package.metadata.limage
NoMetadata ==
    [shape |-> "absent", test_timeout |-> None, test_success_exit_code |-> None,
     test_no_reboot |-> None, filesystem |-> None, run_args |-> None,
     other_key |-> FALSE]

\* main has not been entered: build or run is called by itself
NoCommand == [cmd |-> "none", executable |-> None]

NoMain ==
    /\ cmdline = << >>
    /\ mpc = "none"
    /\ command = NoCommand
    /\ main_result = [kind |-> "none", code |-> None, err |-> "none"]

\* read_config has not been called
NotRead == [kind |-> "none", config |-> None]

NoConfigRead ==
    /\ toml = NoMetadata
    /\ read_result = NotRead
    /\ NoMain

\* "target/fs.img" and "target/kernel.iso", shortened
FsImagePath == <<"f", "s">>
DefaultImagePath == <<"i", "s", "o">>

\* image paths: the default one, and one that itself holds the placeholder
ImagePathSet == {DefaultImagePath, <<"a", "{", "}">>}

Program == <<"q", "e", "m", "u">>
RunArg == <<"-", "r">>
TestArg == <<"-", "t">>

\* the default run_command, shortened: the program, "-cdrom" and "{}"
DefaultRunCommand == <<Program, <<"-", "c">>, <<"{", "}">>>>

\* a run_command may be empty, hold the placeholder several times in one
\* argument or within other braces, or hold names in braces
RunCommandSet ==
    {<< >>,
     DefaultRunCommand,
     <<Program, <<"{", "}", "{", "}">>, <<"f", "=", "{", "}">>>>,
     <<Program, <<"{", "{", "}", "}">>, <<"{", "}", "x", "{", "}">>>>,
     <<Program, <<"{", "i", "m", "a", "g", "e", "}">>,
                <<"{", "o", "v", "m", "f", "}", "{", "}">>>>}

ConfigSet ==
    [test_timeout : 0 .. MaxTimeout,
     test_success_exit_code : SuccessCodeSet,
     filesystem : FilesystemSet,
     filesystem_builder : {None, Some("builder")},
     filesystem_image : {FsImagePath},
     image_path : ImagePathSet,
     run_command : RunCommandSet,
     run_args : {None, Some(<<RunArg>>)},
     test_args : {None, Some(<<TestArg>>)},
     test_no_reboot : BOOLEAN]

\* the command line fields as From<ConfigBuilder> fills them in when the
\* configuration names none of them
DefaultCommand(c) ==
    /\ c.image_path = DefaultImagePath
    /\ c.run_command = DefaultRunCommand
    /\ c.run_args = None
    /\ c.test_args = None
    /\ c.test_no_reboot = TRUE

\* no build has run: nothing is staged and no builder is active
NoBuild ==
    /\ conf_present = TRUE
    /\ kernel_present = TRUE
    /\ fs_ovmf = {}
    /\ limine_dir = [exists |-> FALSE, files |-> {}]
    /\ iso_root = {}
    /\ image = [exists |-> FALSE, installed |-> FALSE]
    /\ fs_image = {}
    /\ active = {}
    /\ bpc = [p \in BuilderIds |-> "idle"]
    /\ blog = [p \in BuilderIds |-> << >>]
    /\ bresult = [p \in BuilderIds |-> "none"]
    /\ first_failed = [p \in BuilderIds |-> None]
    /\ ran_after_failure = [p \in BuilderIds |-> FALSE]
    /\ start_limine = [p \in BuilderIds |-> [exists |-> FALSE, files |-> {}]]
    /\ nbuilds = 0
    /\ clones = 0
    /\ prev_result = [p \in BuilderIds |-> "none"]
    /\ tampered = FALSE

NoRun ==
    /\ argv = << >>
    /\ is_test = FALSE
    /\ rpc = "start"
    /\ child = NoChild
    /\ elapsed = 0
    /\ ops = << >>
    /\ self_exit = FALSE
    /\ test_result = None
    /\ run_result = NotReturned

\* run is entered with any Config and in either mode; no build is modelled
InitRun ==
    /\ config \in {c \in ConfigSet : /\ c.filesystem_builder = None
                                     /\ DefaultCommand(c)}
    /\ argv = << >>
    /\ is_test \in BOOLEAN
    /\ rpc = "start"
    /\ child = NoChild
    /\ elapsed = 0
    /\ ops = << >>
    /\ self_exit = FALSE
    /\ test_result = None
    /\ run_result = NotReturned
    /\ NoBuild
    /\ NoConfigRead

NextRun ==
    \/ assemble_command
    \/ spawn_test
    \/ wait_timeout_some
    \/ wait_timeout_none
    \/ wait_timeout_err
    \/ kill
    \/ wait
    \/ status_spawn
    \/ status_wait
    \/ ChildExit
    \/ Tick

SpecRun == InitRun /\ [][NextRun]_vars

----------------------------------------------------------------------------
(* Specification of a sequence of builds by one Builder *)

\* the working directories as earlier builds or the user may have left
\* them; build reads none of the test settings of the Config
InitBuild ==
    /\ config \in {c \in ConfigSet : /\ c.test_timeout = 0
                                     /\ c.test_success_exit_code = None
                                     /\ DefaultCommand(c)}
    /\ NoRun
    /\ conf_present \in BOOLEAN
    /\ kernel_present \in BOOLEAN
    /\ fs_ovmf \in {{}, {"code", "vars"}}
    /\ limine_dir \in {[exists |-> FALSE, files |-> {}],
                       [exists |-> TRUE, files |-> {}],
                       [exists |-> TRUE, files |-> RequiredSet]}
    /\ iso_root = {}
    /\ image = [exists |-> FALSE, installed |-> FALSE]
    /\ fs_image = {}
    /\ active = {1}
    /\ bpc = [p \in BuilderIds |-> "idle"]
    /\ blog = [p \in BuilderIds |-> << >>]
    /\ bresult = [p \in BuilderIds |-> "none"]
    /\ first_failed = [p \in BuilderIds |-> None]
    /\ ran_after_failure = [p \in BuilderIds |-> FALSE]
    /\ start_limine = [p \in BuilderIds |-> [exists |-> FALSE, files |-> {}]]
    /\ nbuilds = 0
    /\ clones = 0
    /\ prev_result = [p \in BuilderIds |-> "none"]
    /\ tampered = FALSE
    /\ NoConfigRead

NextBuild ==
    \/ \E p \in BuilderIds : build_start(p) /\ UNCHANGED mvars
    \/ \E p \in BuilderIds : prepare_ovmf_code(p)
    \/ \E p \in BuilderIds : prepare_ovmf_vars(p)
    \/ \E p \in BuilderIds : clone_limine_check(p)
    \/ \E p \in BuilderIds : clone_limine_binary(p)
    \/ \E p \in BuilderIds : copy_limine_config(p)
    \/ \E p \in BuilderIds : copy_limine_binary(p)
    \/ \E p \in BuilderIds : copy_kernel(p)
    \/ \E p \in BuilderIds : create_raw_iso(p)
    \/ \E p \in BuilderIds : install_limine_to_iso(p)
    \/ \E p \in BuilderIds : build_filesystem_builder(p)
    \/ \E p \in BuilderIds : build_filesystem_dd(p)
    \/ \E p \in BuilderIds : build_filesystem_fat_mkfs(p)
    \/ \E p \in BuilderIds : build_filesystem_fat_mmd(p)
    \/ \E p \in BuilderIds : build_filesystem_fat_mcopy(p)
    \/ \E p \in BuilderIds : build_filesystem_ext4_mkfs(p)
    \/ \E p \in BuilderIds : build_filesystem_ext4_mount(p)
    \/ \E p \in BuilderIds : build_filesystem_ext4_cp(p)
    \/ \E p \in BuilderIds : build_filesystem_ext4_umount(p)
    \/ external_delete_file

SpecBuild == InitBuild /\ [][NextBuild]_vars

\* The calling thread keeps running and the clock keeps going: a bounded wait
\* returns once the emulator has ended or the deadline is over.  Nothing
\* obliges the emulator to end by itself, nor a bounded wait to fail.
FairSpecRun ==
    /\ SpecRun
    /\ WF_vars(assemble_command)
    /\ WF_vars(spawn_test)
    /\ WF_vars(wait_timeout_some \/ wait_timeout_none)
    /\ WF_vars(kill)
    /\ WF_vars(wait)
    /\ WF_vars(status_spawn)
    /\ WF_vars(Tick)

----------------------------------------------------------------------------
(* Properties of the supervised run (SpecRun, FairSpecRun) *)

\* the supervised child ended before wait_timeout's deadline and was reaped
ExitedBeforeDeadline ==
    /\ is_test
    /\ rpc = "done"
    /\ ops = <<"spawn", "wait_timeout">>
    /\ child.state = "reaped"

\* the success code in force: the configured one, 33 when none is configured
SuccessExitCode ==
    IF config.test_success_exit_code = None
       THEN Some(33)
       ELSE config.test_success_exit_code

\* C1: in test mode Timeout is returned only after kill and then a completed
\* wait that reaped the child, in that order; and a wait after the deadline
\* is always directly preceded by a kill.
C1_KillThenWaitThenTimeout ==
    is_test =>
       /\ test_result = Some("Timeout") =>
             /\ ops = <<"spawn", "wait_timeout", "kill", "wait">>
             /\ child.state = "reaped"
       /\ \A i \in 1 .. Len(ops) :
             ops[i] = "wait" => (i > 1 /\ ops[i - 1] = "kill")

C1_Witness ==
    /\ is_test
    /\ test_result = Some("Timeout")
    /\ run_result.kind = "Ok"
    /\ ops[Len(ops)] = "wait"

\* C2: whenever handle_test_execution has returned after spawning the
\* emulator, the emulator has been reaped, on every path, Ok or Err.
C2_ReapedOnEveryReturn ==
    (is_test /\ rpc = "done" /\ child.state # "none") => child.state = "reaped"

\* C3: a supervised process that exits with code c before the deadline is
\* Success if and only if c is the configured success_exit_code, and Failure
\* otherwise.
C3_ClassifiedByConfiguredCode ==
    (ExitedBeforeDeadline /\ code(child.status) # None) =>
       /\ test_result = Some("Success") <=> code(child.status) = SuccessExitCode
       /\ test_result = Some("Failure") <=> code(child.status) # SuccessExitCode

\* C4: when success_exit_code is not 0, a supervised process that exits with
\* code 0 before the deadline is Failure and run's exit code is 1.
C4_ZeroIsFailure ==
    (/\ ExitedBeforeDeadline
     /\ config.test_success_exit_code # Some(0)
     /\ code(child.status) = Some(0))
    => /\ test_result = Some("Failure")
       /\ run_result = Ok(1)

C4_Witness ==
    /\ ExitedBeforeDeadline
    /\ config.test_success_exit_code = Some(5)
    /\ code(child.status) = Some(0)
    /\ test_result = Some("Failure")

\* C5: in test mode run's Ok value is given by the table Success -> 0,
\* Failure -> 1, Timeout -> 2 applied to the TestResult, so it is in {0, 1, 2}
\* and does not depend on the emulator's raw exit code.
C5_ExitCodeTable ==
    (is_test /\ run_result.kind = "Ok") =>
       /\ test_result # None
       /\ run_result.code =
             Some([Success |-> 0, Failure |-> 1, Timeout |-> 2][test_result[1]])
       /\ run_result.code[1] \in {0, 1, 2}

C5_Witness ==
    /\ is_test
    /\ run_result = Ok(1)
    /\ test_result = Some("Failure")
    /\ code(child.status) = Some(2)

\* C6: in normal mode run waits with no deadline until the emulator has ended
\* and returns its exit code unchanged, or 1 when it ended without a code; no
\* kill and no bounded wait is ever issued.
C6_NormalModePassThrough ==
    ~is_test =>
       /\ \A i \in 1 .. Len(ops) : ops[i] \notin {"kill", "wait_timeout"}
       /\ test_result = None
       /\ child.state = "running" => run_result.kind # "Ok"
       /\ run_result.kind = "Ok" =>
             /\ child.state = "reaped"
             /\ self_exit
             /\ child.status.kind = "exited" => run_result.code = child.status.code
             /\ child.status.kind = "signaled" => run_result.code = Some(1)

C6_Witness ==
    /\ ~is_test
    /\ run_result = Ok(1)
    /\ child.status = Signaled
    /\ child.state = "reaped"

----------------------------------------------------------------------------
(* Properties of the build pipeline (SpecBuild) *)

\* builder p's current build has executed step
InLog(p, step) == \E i \in 1 .. Len(blog[p]) : blog[p][i] = step

\* builder p's current build found the bootloader directory present
StartedIncomplete(p) ==
    /\ bpc[p] # "idle"
    /\ start_limine[p].exists
    /\ ~(RequiredSet \subseteq start_limine[p].files)

StartedComplete(p) ==
    /\ bpc[p] # "idle"
    /\ start_limine[p].exists
    /\ RequiredSet \subseteq start_limine[p].files

\* C8: a build that finds the bootloader directory present but lacking a
\* required file clones it again before bootloader binary staging; it never
\* reaches staging without having cloned.
C8_IncompleteDirIsRecloned ==
    \A p \in active :
       (StartedIncomplete(p) /\ InLog(p, "copy_limine_binary"))
          => InLog(p, "git_clone")

\* C9: a build that finds the bootloader directory present with every
\* required file issues no clone and leaves the directory as it was; so the
\* build right after a successful build issues no clone.
C9_CompleteDirNotCloned ==
    \A p \in active :
       /\ StartedComplete(p) =>
             /\ ~InLog(p, "git_clone")
             /\ ~InLog(p, "create_dir_limine")
             /\ (bpc[p] # "done" \/ ~tampered) => limine_dir = start_limine[p]
       /\ (nbuilds >= 2 /\ prev_result[p] = "Ok" /\ ~tampered) =>
             /\ ~InLog(p, "git_clone")
             /\ StartedComplete(p)

C9_Witness ==
    /\ nbuilds = 2
    /\ clones = 1
    /\ ~tampered
    /\ prev_result[1] = "Ok"
    /\ bresult[1] = "Ok"
    /\ StartedComplete(1)

\* the commands C10 names, and the error of the step each belongs to
FailFastCommands ==
    {"curl_code", "curl_vars", "git_clone", "xorriso", "limine_bios_install",
     "dd", "mkfs_fat", "mkfs_ext4", "mmd", "mcopy", "cp"}

StepError(cmd) ==
    CASE cmd \in {"curl_code", "curl_vars"} -> "DownloadOvmfFirmwareFailed"
      [] cmd = "git_clone" -> "CloneLimineBinaryFailed"
      [] cmd = "xorriso" -> "CreateLimineIsoFailed"
      [] cmd = "limine_bios_install" -> "InstallLimineToIsoFailed"
      [] cmd = "dd" -> "CreateEmptyImgFailed"
      [] cmd \in {"mkfs_fat", "mkfs_ext4"} -> "FormatImgFailed"
      [] cmd = "mmd" -> "AddImgDirectoryFailed"
      [] cmd \in {"mcopy", "cp"} -> "AddImgContentFailed"

\* C10: when an external command of a step fails, by not launching or by a
\* non-zero exit status, build runs no later step and returns that step's
\* error.
C10_FailFast ==
    \A p \in active :
       (first_failed[p] # None /\ first_failed[p][1] \in FailFastCommands) =>
          /\ ~ran_after_failure[p]
          /\ bpc[p] = "done"
          /\ bresult[p] = StepError(first_failed[p][1])

\* C11: whenever build has returned success, both firmware files are present
\* under the firmware directory and the image file exists at image_path.
C11_SuccessHasArtifacts ==
    \A p \in active :
       bresult[p] = "Ok" =>
          /\ fs_ovmf = {"code", "vars"}
          /\ image.exists

\* the pipeline stage a logged step belongs to: 1 firmware acquisition,
\* 2 bootloader acquisition, 3 config staging, 4 bootloader binary staging,
\* 5 kernel staging, 6 ISO assembly, 7 bootloader installation, 8 payload
Stage(step) ==
    CASE step \in {"create_dir_ovmf", "curl_code", "curl_vars"} -> 1
      [] step \in {"create_dir_target", "limine_exists", "create_dir_limine",
                   "git_clone"} -> 2
      [] step \in {"create_dir_iso_boot_limine", "copy_limine_config"} -> 3
      [] step \in {"create_dir_iso_efi_boot", "copy_limine_binary"} -> 4
      [] step \in {"create_dir_iso_boot_kernel", "copy_kernel"} -> 5
      [] step \in {"create_dir_image_parent", "xorriso"} -> 6
      [] step = "limine_bios_install" -> 7
      [] OTHER -> 8

\* C12: in every build the steps run in the order firmware acquisition,
\* bootloader acquisition, config staging, bootloader binary staging, kernel
\* staging, ISO assembly, bootloader installation, optional payload: the
\* build starts with the first stage, never goes back, never jumps over a
\* stage, runs no step twice, and a successful build has run them all.
C12_PipelineOrder ==
    \A p \in active :
       LET log == blog[p] IN
       /\ log # << >> => Stage(log[1]) = 1
       /\ \A i \in 1 .. Len(log) - 1 :
             /\ Stage(log[i]) <= Stage(log[i + 1])
             /\ Stage(log[i + 1]) <= Stage(log[i]) + 1
       /\ \A i, j \in 1 .. Len(log) : log[i] = log[j] => i = j
       /\ bresult[p] = "Ok" =>
             /\ \A k \in 1 .. 7 : \E i \in 1 .. Len(log) : Stage(log[i]) = k
             /\ {"curl_code", "curl_vars", "limine_exists", "copy_limine_config",
                 "copy_limine_binary", "copy_kernel", "xorriso",
                 "limine_bios_install"} \subseteq {log[i] : i \in 1 .. Len(log)}

C12_Witness ==
    /\ bresult[1] = "Ok"
    /\ config.filesystem # None
    /\ InLog(1, "git_clone")
    /\ InLog(1, "mcopy")
    /\ Stage(blog[1][Len(blog[1])]) = 8

\* C13: a configured pre-build command is the first step of every build, a
\* non-zero exit of it does not end the build, and with none configured no
\* such command runs.  The only configurable command of build is
\* filesystem_builder.
C13_PrebuildHookFirst ==
    \A p \in active :
       /\ (config.filesystem_builder # None /\ blog[p] # << >>) =>
             blog[p][1] = "filesystem_builder"
       /\ (first_failed[p] = Some("filesystem_builder") /\ bpc[p] = "done") =>
             bresult[p] # "CreateDirectoryFailed"
       /\ config.filesystem_builder = None => ~InLog(p, "filesystem_builder")

\* the steps of the filesystem payload stage, and among them the format and
\* populate utilities
PayloadSteps ==
    {"filesystem_builder", "dd", "mkfs_fat", "mmd", "mcopy",
     "mkfs_ext4", "mount", "cp", "umount"}

FormatPopulateSteps ==
    {"mkfs_fat", "mmd", "mcopy", "mkfs_ext4", "mount", "cp", "umount"}

\* a configured kind that is neither a FAT variant nor ext4
UnsupportedKindConfigured == config.filesystem = Some(<<"n", "t", "f", "s">>)

\* C16: a payload step runs only with a filesystem kind configured and only
\* after bootloader installation; a build that succeeds ran the payload
\* stage exactly when a kind is configured; with an unsupported kind no
\* format or populate utility is ever invoked, build never succeeds, and a
\* build that reached the dispatch returned the hard error FormatImgFailed.
C16_PayloadStage ==
    \A p \in active :
       /\ \A i \in 1 .. Len(blog[p]) :
             blog[p][i] \in PayloadSteps =>
                /\ config.filesystem # None
                /\ \E j \in 1 .. i - 1 : blog[p][j] = "limine_bios_install"
       /\ bresult[p] = "Ok" => (config.filesystem # None <=> InLog(p, "dd"))
       /\ UnsupportedKindConfigured =>
             /\ \A i \in 1 .. Len(blog[p]) : blog[p][i] \notin FormatPopulateSteps
             /\ bresult[p] # "Ok"
             /\ (bpc[p] = "done" /\ InLog(p, "dd")) =>
                   bresult[p] \in {"FormatImgFailed", "CreateEmptyImgFailed"}

C16_Witness ==
    /\ UnsupportedKindConfigured
    /\ InLog(1, "dd")
    /\ bresult[1] = "FormatImgFailed"

-----------------------------------------------------------------------------
(* Two builds at once in one working directory: two limage processes, each
   with its own Builder, started on a tree without ./target/limine.  Nothing
   in builder.rs locks the directory. *)

InitConc ==
    /\ config \in {c \in ConfigSet : /\ c.test_timeout = 0
                                     /\ c.test_success_exit_code = None
                                     /\ DefaultCommand(c)
                                     /\ c.filesystem = None
                                     /\ c.filesystem_builder = None}
    /\ NoRun
    /\ conf_present \in BOOLEAN
    /\ kernel_present \in BOOLEAN
    /\ fs_ovmf = {}
    /\ limine_dir = [exists |-> FALSE, files |-> {}]
    /\ iso_root = {}
    /\ image = [exists |-> FALSE, installed |-> FALSE]
    /\ fs_image = {}
    /\ active = BuilderIds
    /\ bpc = [p \in BuilderIds |-> "idle"]
    /\ blog = [p \in BuilderIds |-> << >>]
    /\ bresult = [p \in BuilderIds |-> "none"]
    /\ first_failed = [p \in BuilderIds |-> None]
    /\ ran_after_failure = [p \in BuilderIds |-> FALSE]
    /\ start_limine = [p \in BuilderIds |-> [exists |-> FALSE, files |-> {}]]
    /\ nbuilds = 0
    /\ clones = 0
    /\ prev_result = [p \in BuilderIds |-> "none"]
    /\ tampered = FALSE
    /\ NoConfigRead

NextConc ==
    \/ \E p \in BuilderIds : build_start(p) /\ UNCHANGED mvars
    \/ \E p \in BuilderIds : prepare_ovmf_code(p)
    \/ \E p \in BuilderIds : prepare_ovmf_vars(p)
    \/ \E p \in BuilderIds : clone_limine_check(p)
    \/ \E p \in BuilderIds : clone_limine_binary(p)
    \/ \E p \in BuilderIds : copy_limine_config(p)
    \/ \E p \in BuilderIds : copy_limine_binary(p)
    \/ \E p \in BuilderIds : copy_kernel(p)
    \/ \E p \in BuilderIds : create_raw_iso(p)
    \/ \E p \in BuilderIds : install_limine_to_iso(p)

SpecConc == InitConc /\ [][NextConc]_vars

\* C17: nothing excludes a second clone.  A build that found the bootloader
\* directory missing is committed to the clone: its next step makes the
\* directory and issues git clone (or panics making it), whatever the other
\* build has done to the directory since the test; so the state in which
\* both builds have issued the clone is reached (C17_Witness).
C17_CheckThenCloneNotExclusive ==
    [][\A p \in BuilderIds :
          (bpc[p] = "clone_limine_binary" /\ bpc'[p] # bpc[p]) =>
             /\ Len(blog'[p]) = Len(blog[p]) + 1
             /\ blog'[p][Len(blog'[p])] \in {"git_clone", "create_dir_limine"}
             /\ blog'[p][Len(blog'[p])] = "git_clone" => clones' = clones + 1]_vars

C17_Witness ==
    /\ InLog(1, "git_clone")
    /\ InLog(2, "git_clone")
    /\ start_limine[1].exists = FALSE
    /\ start_limine[2].exists = FALSE
    /\ clones = 2

-----------------------------------------------------------------------------
(* The command line of run: run entered with any of the command line fields
   of Config, in either mode, with and without a filesystem *)

InitCmd ==
    /\ config \in {c \in ConfigSet :
                      /\ c.test_timeout = 1
                      /\ c.test_success_exit_code = None
                      /\ c.filesystem \in {None, Some(<<"e", "x", "t", "4">>)}
                      /\ c.filesystem_builder = None}
    /\ argv = << >>
    /\ is_test \in BOOLEAN
    /\ rpc = "start"
    /\ child = NoChild
    /\ elapsed = 0
    /\ ops = << >>
    /\ self_exit = FALSE
    /\ test_result = None
    /\ run_result = NotReturned
    /\ NoBuild
    /\ NoConfigRead

SpecCmd == InitCmd /\ [][NextRun]_vars

\* the command line has been put together and Command::new was reached
Assembled == rpc # "start" /\ run_result # Panicked

\* s holds sub
Contains(s, sub) ==
    \E k \in 1 .. Len(s) - Len(sub) + 1 : SubSeq(s, k, k + Len(sub) - 1) = sub

ImageName == <<"{", "i", "m", "a", "g", "e", "}">>
OvmfName == <<"{", "o", "v", "m", "f", "}">>

Starts(s) == {k \in 1 .. Len(s) - 1 : s[k] = "{" /\ s[k + 1] = "}"}

\* where what stood at place k of base argument b stands after every "{}"
\* before it has been replaced by the image path
Moved(b, k) ==
    k + Cardinality({j \in Starts(b) : j < k}) * (Len(config.image_path) - 2)

AfterBase == SubSeq(argv, Len(config.run_command) + 1, Len(argv))

\* the mode-specific arguments, spelled out case by case
ExpectedModeArgs ==
    CASE is_test /\ config.test_no_reboot /\ config.test_args = None ->
            <<NoReboot>>
      [] is_test /\ config.test_no_reboot /\ config.test_args # None ->
            <<NoReboot, TestArg>>
      [] is_test /\ ~config.test_no_reboot /\ config.test_args = None -> << >>
      [] is_test /\ ~config.test_no_reboot /\ config.test_args # None ->
            <<TestArg>>
      [] ~is_test /\ config.run_args = None -> << >>
      [] ~is_test /\ config.run_args # None -> <<RunArg>>

\* C15 as stated: the command line is the rendered base arguments followed
\* by the mode-specific arguments, and by nothing else.
C15_BaseThenModeArgs ==
    Assembled =>
       /\ Len(argv) >= Len(config.run_command)
       /\ AfterBase = ExpectedModeArgs

\* C15, amended: the command line is the rendered base arguments, then, when
\* a filesystem is configured, "-drive" and "file=<filesystem image>,format=raw",
\* then the mode-specific arguments.  In test mode these are the no-reboot
\* flag, present exactly when test_no_reboot is true, before the test
\* arguments; in normal mode the live-run arguments only.  The flag and the
\* test arguments never follow the base arguments in normal mode, nor the
\* live-run arguments in test mode.
C15_BaseDriveThenModeArgs ==
    Assembled =>
       /\ Len(argv) >= Len(config.run_command)
       /\ AfterBase =
             (IF config.filesystem = None THEN << >>
              ELSE << <<"-", "d", "r", "i", "v", "e">>,
                      <<"f", "i", "l", "e", "=", "f", "s", ",",
                        "f", "o", "r", "m", "a", "t", "=", "r", "a", "w">> >>)
             \o ExpectedModeArgs
       /\ \A i \in 1 .. Len(AfterBase) :
             /\ ~is_test => AfterBase[i] \notin {NoReboot, TestArg}
             /\ is_test => AfterBase[i] # RunArg
             /\ (is_test /\ AfterBase[i] = TestArg) =>
                   \A j \in 1 .. Len(AfterBase) : AfterBase[j] = NoReboot => j < i

C15_Witness ==
    /\ rpc = "spawn"
    /\ is_test
    /\ config.filesystem # None
    /\ config.test_no_reboot
    /\ config.test_args # None
    /\ config.run_args # None
    /\ Len(argv) = Len(config.run_command) + 4
    /\ argv[Len(argv)] = TestArg
    /\ argv[Len(argv) - 1] = NoReboot

-----------------------------------------------------------------------------
(* config.rs: read_config *)

\* test_timeout.unwrap_or(60 * 5)
DefaultTestTimeout == 300

\* i64 as u32 of a value that is not negative: the low 32 bits
as_u32(v) == v.lo

\* i64 as i32 of a value whose magnitude is below 2^31
as_i32(v) == IF v.neg THEN 0 - v.lo ELSE v.lo

\* parse_string_array: every element has to be a string
parse_string_array(array) ==
    IF \A i \in 1 .. Len(array) : array[i].type = "String"
       THEN Some([i \in 1 .. Len(array) |-> array[i].str])
       ELSE None

\* an arm of the match in read_config_inner accepts the value given for key
ArmAccepts(key, v) ==
    CASE key = "test-timeout" -> v.type = "Integer" /\ ~v.neg
      [] key = "test-success-exit-code" -> v.type = "Integer"
      [] key = "test-no-reboot" -> v.type = "Boolean"
      [] key = "filesystem" -> v.type = "String"
      [] key = "run-args" -> v.type = "Array" /\ parse_string_array(v.a) # None

\* Config::test_timeout: Some(timeout as u32) of the key, or the default
BuiltTimeout(t) ==
    IF t.test_timeout = None THEN DefaultTestTimeout
    ELSE as_u32(t.test_timeout[1])

\* ConfigBuilder::into for the keys of table t
Built(t) ==
    [test_timeout |-> BuiltTimeout(t),
     test_success_exit_code |->
        IF t.test_success_exit_code = None THEN None
        ELSE Some(as_i32(t.test_success_exit_code[1])),
     test_no_reboot |->
        IF t.test_no_reboot = None THEN TRUE ELSE t.test_no_reboot[1].b,
     filesystem |-> IF t.filesystem = None THEN None ELSE Some(t.filesystem[1].str),
     filesystem_builder |-> None,
     filesystem_image |-> FsImagePath,
     image_path |-> DefaultImagePath,
     run_command |-> DefaultRunCommand,
     run_args |-> IF t.run_args = None THEN None
                  ELSE parse_string_array(t.run_args[1].a),
     test_args |-> None]

ReadOk(c) == [kind |-> "Ok", config |-> Some(c)]
ReadErr == [kind |-> "Err", config |-> None]

\* read_config_inner on the metadata entry t
ReadConfig(t) ==
    IF t.shape = "absent" THEN ReadOk(Built(NoMetadata))
    ELSE IF t.shape # "table" THEN ReadErr
    ELSE IF /\ ~t.other_key
            /\ \A key \in {"test-timeout", "test-success-exit-code",
                           "test-no-reboot", "filesystem", "run-args"} :
                  LET entry == CASE key = "test-timeout" -> t.test_timeout
                                 [] key = "test-success-exit-code" ->
                                       t.test_success_exit_code
                                 [] key = "test-no-reboot" -> t.test_no_reboot
                                 [] key = "filesystem" -> t.filesystem
                                 [] key = "run-args" -> t.run_args
                  IN entry # None => ArmAccepts(key, entry[1])
         THEN ReadOk(Built(t))
         ELSE ReadErr

\* read_config is called on the manifest
read_config ==
    /\ read_result = NotRead
    /\ read_result' = ReadConfig(toml)
    /\ UNCHANGED <<config, toml, rvars, bvars, mvars>>

\* the package.metadata.limage entries read_config is tried on
TomlSet ==
    {NoMetadata, [NoMetadata EXCEPT !.shape = "string"]} \cup
    [shape : {"table"},
     test_timeout :
        {None, Some(TomlInteger(TRUE, 0, 1)), Some(TomlInteger(FALSE, 0, 0)),
         Some(TomlInteger(FALSE, 0, 1)), Some(TomlInteger(FALSE, 0, 2)),
         Some(TomlInteger(FALSE, 1, 0)), Some(TomlInteger(FALSE, 1, 1)),
         Some(TomlString(<<"5">>))},
     test_success_exit_code :
        {None, Some(TomlInteger(FALSE, 0, 33)), Some(TomlInteger(FALSE, 0, 0)),
         Some(TomlInteger(TRUE, 0, 1))},
     test_no_reboot : {None, Some(TomlBoolean(TRUE)), Some(TomlBoolean(FALSE))},
     filesystem : {None, Some(TomlString(<<"f", "a", "t", "3", "2">>))},
     run_args :
        {None, Some(TomlArray(<<TomlString(RunArg)>>)),
         Some(TomlArray(<<TomlString(RunArg), TomlInteger(FALSE, 0, 1)>>))},
     other_key : BOOLEAN]

InitConfig ==
    /\ toml \in TomlSet
    /\ read_result = NotRead
    /\ NoMain
    /\ config \in {c \in ConfigSet : /\ c.test_timeout = 0
                                     /\ c.test_success_exit_code = None
                                     /\ c.filesystem = None
                                     /\ c.filesystem_builder = None
                                     /\ DefaultCommand(c)}
    /\ NoRun
    /\ NoBuild

NextConfig == read_config

SpecConfig == InitConfig /\ [][NextConfig]_vars

\* C20: every Config read_config returns has a timeout above 0, and when
\* test-timeout is given the timeout is the integer given: a given 0, a
\* negative number or a number that does not fit in 32 bits never ends in a
\* Config with a timeout of 0 or with another timeout.
C20_TimeoutPositiveAndAsGiven ==
    read_result.kind = "Ok" =>
       /\ read_result.config[1].test_timeout > 0
       /\ (toml.shape = "table" /\ toml.test_timeout # None) =>
             /\ toml.test_timeout[1].type = "Integer"
             /\ ~toml.test_timeout[1].neg
             /\ toml.test_timeout[1].hi = 0
             /\ read_result.config[1].test_timeout = toml.test_timeout[1].lo

-----------------------------------------------------------------------------
(* main.rs and args.rs: one run of the limage program.

   An argument is read as a path: the sequence of its components.  A
   component is a String, cut into pieces so that a prefix or an extension of
   it can be told: "rustdoctestAbC" is <<"rustdoctest", "AbC">>. *)

Word(w) == << <<w>> >>

RootDir == <<"/">>
ParentDir == <<"..">>
CurDir == <<".">>

\* Path::parent: the path without its last component; None for the empty
\* path and for the root
parent(path) ==
    IF path = << >> \/ path = <<RootDir>> THEN None
    ELSE Some(SubSeq(path, 1, Len(path) - 1))

\* Path::file_name: the last component when it is a normal one
file_name(path) ==
    IF path = << >> \/ path[Len(path)] \in {RootDir, ParentDir, CurDir} THEN None
    ELSE Some(path[Len(path)])

\* Path::file_stem: the file name without its extension
file_stem(path) ==
    IF file_name(path) = None THEN None
    ELSE LET name == file_name(path)[1]
         IN IF Len(name) > 1 /\ name[Len(name)] = ".exe"
               THEN Some(SubSeq(name, 1, Len(name) - 1))
               ELSE Some(name)

\* Path::ends_with(child) for a child of one component
ends_with(path, component) ==
    path # << >> /\ path[Len(path)] = component

RECURSIVE parse_loop(_, _, _)
\* the loop of parse_args from argument i on: st holds executable and
\* build_only; a help or version flag returns at once
parse_loop(args, i, st) ==
    IF i > Len(args) THEN st
    ELSE IF args[i] \in {Word("--help"), Word("-h")}
            THEN [st EXCEPT !.returned = "Help"]
    ELSE IF args[i] \in {Word("--version"), Word("-v")}
            THEN [st EXCEPT !.returned = "Version"]
    ELSE IF args[i] = Word("build")
            THEN parse_loop(args, i + 1, [st EXCEPT !.build_only = TRUE])
    ELSE parse_loop(args, i + 1, [st EXCEPT !.executable = Some(args[i])])

\* LimageCommand::parse_args: args_count is the number of arguments when the
\* loop ends
parse_args(args) ==
    LET st == parse_loop(args, 1, [executable |-> None, build_only |-> FALSE,
                                   returned |-> "none"])
        build_only == st.build_only \/ Len(args) < 2
    IN IF st.returned # "none" THEN [cmd |-> st.returned, executable |-> None]
       ELSE IF st.executable = None THEN [cmd |-> "Err", executable |-> None]
       ELSE IF build_only THEN [cmd |-> "Build", executable |-> None]
       ELSE [cmd |-> "Run", executable |-> st.executable]

\* main returned Ok(()), and process::exit(code)
Returned == [kind |-> "Ok", code |-> None, err |-> "none"]
Exit(c) == [kind |-> "exit", code |-> Some(c), err |-> "none"]

\* validate_executable_name and validate_arguments
main_validate ==
    /\ mpc = "start"
    /\ IF cmdline = << >>
          THEN /\ main_result' = Err("no first argument (executable name)")
               /\ mpc' = "done"
       ELSE IF file_stem(cmdline[1]) # Some(<<"limage">>)
          THEN /\ main_result' = Err("Unexpected executable name")
               /\ mpc' = "done"
       ELSE IF /\ Len(cmdline) >= 2
               /\ cmdline[2] \notin {Word("clean"), Word("build"), Word("runner"),
                                     Word("--help"), Word("-h"),
                                     Word("--version"), Word("-v")}
          THEN /\ main_result' = Err("Unexpected subcommand")
               /\ mpc' = "done"
       ELSE /\ mpc' = "read_config"
            /\ UNCHANGED main_result
    /\ UNCHANGED <<config, rvars, bvars, cvars, cmdline, command>>

\* Builder::new(None) and read_config in main
main_read_config ==
    /\ mpc = "read_config"
    /\ read_result' = ReadConfig(toml)
    /\ IF ReadConfig(toml).kind = "Ok"
          THEN /\ config' = ReadConfig(toml).config[1]
               /\ mpc' = "process"
               /\ UNCHANGED main_result
          ELSE /\ main_result' = Err("Failed to read limage configuration")
               /\ mpc' = "done"
               /\ UNCHANGED config
    /\ UNCHANGED <<toml, rvars, bvars, cmdline, command>>

\* process: the match on parse_args
process ==
    /\ mpc = "process"
    /\ command' = parse_args(cmdline)
    /\ CASE parse_args(cmdline).cmd \in {"Help", "Version"} ->
              /\ main_result' = Returned
              /\ mpc' = "done"
         [] parse_args(cmdline).cmd = "Err" ->
              /\ main_result' = Err("expected path to kernel executable")
              /\ mpc' = "done"
         [] parse_args(cmdline).cmd = "Build" ->
              /\ mpc' = "build"
              /\ UNCHANGED main_result
         [] parse_args(cmdline).cmd = "Run" ->
              /\ mpc' = "runner"
              /\ UNCHANGED main_result
    /\ UNCHANGED <<config, rvars, bvars, cvars, cmdline>>

\* a faulty mode selection that knows the deps directory only
IsTestParent_DepsOnly(exe_parent) == ends_with(exe_parent, <<"deps">>)

\* is_doctest || exe_parent.ends_with("deps"), for a parent with a file name
IsTestParent(exe_parent) ==
    \/ starts_with(file_name(exe_parent)[1], <<"rustdoctest">>)
    \/ ends_with(exe_parent, <<"deps">>)

\* runner up to the call of build: the mode is taken from the parent
\* directory of the executable, then the path is canonicalized, which needs
\* the file to exist.  (Builder::new and read_config are called once more,
\* with the result main had.)
runner ==
    /\ mpc = "runner"
    /\ LET exe == command.executable[1]
       IN IF parent(exe) = None
             THEN /\ main_result' = Err("kernel executable has no parent")
                  /\ mpc' = "done"
                  /\ UNCHANGED is_test
          ELSE IF file_name(parent(exe)[1]) = None
             THEN /\ main_result' =
                        Err("kernel executable's parent has no file name")
                  /\ mpc' = "done"
                  /\ UNCHANGED is_test
          ELSE /\ is_test' = IsTestParent(parent(exe)[1])
               /\ IF kernel_present
                     THEN /\ mpc' = "build"
                          /\ UNCHANGED main_result
                     ELSE /\ main_result' =
                                Err("failed to canonicalize executable path")
                          /\ mpc' = "done"
    /\ UNCHANGED <<argv, rpc, child, elapsed, ops, self_exit, test_result,
                   run_result>>
    /\ UNCHANGED <<config, bvars, cvars, cmdline, command>>

\* builder.build is called, by process for Build and by runner for Run
call_build ==
    /\ mpc = "build"
    /\ build_start(1)
    /\ mpc' = "building"
    /\ UNCHANGED <<cmdline, command, main_result>>

\* a faulty runner that goes on to runner::run whatever build returned
build_returned_IgnoresError ==
    /\ mpc = "building"
    /\ bpc[1] = "done"
    /\ IF bresult[1] = "panic"
          THEN /\ main_result' = [kind |-> "panic", code |-> None, err |-> "unwrap"]
               /\ mpc' = "done"
               /\ UNCHANGED rpc
       ELSE IF command.cmd = "Build"
          THEN /\ main_result' = IF bresult[1] = "Ok" THEN Exit(0)
                                 ELSE Err(bresult[1])
               /\ mpc' = "done"
               /\ UNCHANGED rpc
       ELSE /\ rpc' = "start"
            /\ mpc' = "running"
            /\ UNCHANGED main_result
    /\ UNCHANGED <<argv, is_test, child, elapsed, ops, self_exit, test_result,
                   run_result>>
    /\ UNCHANGED <<config, bvars, cvars, cmdline, command>>

\* build has returned: its error ends the program, process exits with the
\* code of Build, and runner goes on to runner::run
build_returned ==
    /\ mpc = "building"
    /\ bpc[1] = "done"
    /\ IF bresult[1] = "panic"
          THEN /\ main_result' = [kind |-> "panic", code |-> None, err |-> "unwrap"]
               /\ mpc' = "done"
               /\ UNCHANGED rpc
       ELSE IF bresult[1] # "Ok"
          THEN /\ main_result' = Err(bresult[1])
               /\ mpc' = "done"
               /\ UNCHANGED rpc
       ELSE IF command.cmd = "Build"
          THEN /\ main_result' = Exit(0)
               /\ mpc' = "done"
               /\ UNCHANGED rpc
       ELSE /\ rpc' = "start"
            /\ mpc' = "running"
            /\ UNCHANGED main_result
    /\ UNCHANGED <<argv, is_test, child, elapsed, ops, self_exit, test_result,
                   run_result>>
    /\ UNCHANGED <<config, bvars, cvars, cmdline, command>>

\* runner::run has returned: process::exit(exit_code), or its error
run_returned ==
    /\ mpc = "running"
    /\ rpc = "done"
    /\ main_result' = IF run_result.kind = "Ok" THEN Exit(run_result.code[1])
                      ELSE run_result
    /\ mpc' = "done"
    /\ UNCHANGED <<config, rvars, bvars, cvars, cmdline, command>>

Kernel == <<"kernel">>

\* paths of a kernel executable: in a deps directory, in a doctest
\* directory, in directories that only look like these, and without a named
\* parent directory
KernelPathSet ==
    {<<<<"target">>, <<"deps">>, Kernel>>,
     <<RootDir, <<"deps">>, Kernel>>,
     <<<<"tmp">>, <<"rustdoctest", "AbC">>, Kernel>>,
     <<<<"rustdoctest">>, Kernel>>,
     <<<<"target">>, <<"debug">>, Kernel>>,
     <<<<"target">>, <<"my", "deps">>, Kernel>>,
     <<<<"target">>, <<"deps", ".d">>, Kernel>>,
     <<<<"tmp">>, <<"x", "rustdoctest">>, Kernel>>,
     <<<<"deps">>, <<"debug">>, Kernel>>,
     <<Kernel>>,
     <<RootDir, Kernel>>,
     <<ParentDir, Kernel>>,
     <<CurDir, Kernel>>}

\* command lines: no argument at all, other program names, each subcommand
\* and flag, and runner with each kernel path
CmdLineSet ==
    {<< >>, <<Word("cargo")>>, <<Word("limage")>>,
     << <<<<"bin">>, <<"limage", ".exe">>>> >>,
     <<Word("limage"), Word("build")>>,
     <<Word("limage"), Word("clean")>>,
     <<Word("limage"), Word("runner")>>,
     <<Word("limage"), Word("run")>>,
     <<Word("limage"), Word("--help")>>,
     <<Word("limage"), Word("-h")>>,
     <<Word("limage"), Word("--version")>>,
     <<Word("limage"), Word("-v")>>,
     <<Word("limage"), Word("build"), Word("build")>>,
     <<Word("limage"), Word("runner"), Word("--help")>>}
    \cup {<<Word("limage"), Word("runner"), k>> : k \in KernelPathSet}

\* a table that sets a short test-timeout
ShortTimeout ==
    [NoMetadata EXCEPT !.shape = "table",
                       !.test_timeout = Some(TomlInteger(FALSE, 0, 1))]

\* the program is started in a tree without build artifacts
InitMain ==
    /\ cmdline \in CmdLineSet
    /\ mpc = "start"
    /\ command = NoCommand
    /\ main_result = [kind |-> "none", code |-> None, err |-> "none"]
    /\ toml \in {ShortTimeout, [ShortTimeout EXCEPT !.other_key = TRUE]}
    /\ read_result = NotRead
    /\ config = Built(NoMetadata)
    /\ argv = << >>
    /\ is_test = FALSE
    /\ rpc = "idle"
    /\ child = NoChild
    /\ elapsed = 0
    /\ ops = << >>
    /\ self_exit = FALSE
    /\ test_result = None
    /\ run_result = NotReturned
    /\ conf_present = TRUE
    /\ kernel_present \in BOOLEAN
    /\ fs_ovmf = {}
    /\ limine_dir = [exists |-> FALSE, files |-> {}]
    /\ iso_root = {}
    /\ image = [exists |-> FALSE, installed |-> FALSE]
    /\ fs_image = {}
    /\ active = {1}
    /\ bpc = [p \in BuilderIds |-> "idle"]
    /\ blog = [p \in BuilderIds |-> << >>]
    /\ bresult = [p \in BuilderIds |-> "none"]
    /\ first_failed = [p \in BuilderIds |-> None]
    /\ ran_after_failure = [p \in BuilderIds |-> FALSE]
    /\ start_limine = [p \in BuilderIds |-> [exists |-> FALSE, files |-> {}]]
    /\ nbuilds = 0
    /\ clones = 0
    /\ prev_result = [p \in BuilderIds |-> "none"]
    /\ tampered = FALSE

NextMain ==
    \/ main_validate
    \/ main_read_config
    \/ process
    \/ runner
    \/ call_build
    \/ build_returned
    \/ run_returned
    \/ \E p \in BuilderIds : prepare_ovmf_code(p)
    \/ \E p \in BuilderIds : prepare_ovmf_vars(p)
    \/ \E p \in BuilderIds : clone_limine_check(p)
    \/ \E p \in BuilderIds : clone_limine_binary(p)
    \/ \E p \in BuilderIds : copy_limine_config(p)
    \/ \E p \in BuilderIds : copy_limine_binary(p)
    \/ \E p \in BuilderIds : copy_kernel(p)
    \/ \E p \in BuilderIds : create_raw_iso(p)
    \/ \E p \in BuilderIds : install_limine_to_iso(p)
    \/ NextRun

SpecMain == InitMain /\ [][NextMain]_vars

\* the working directory holds no build artifact
NoArtifacts ==
    /\ fs_ovmf = {}
    /\ ~limine_dir.exists
    /\ iso_root = {}
    /\ ~image.exists
    /\ fs_image = {}

\* C18: limage clean, started in a tree without build artifacts, ends
\* without an error and has removed and made nothing.
C18_CleanSucceeds ==
    (/\ cmdline = <<Word("limage"), Word("clean")>>
     /\ read_result.kind = "Ok"
     /\ mpc = "done") =>
       /\ main_result.kind \in {"Ok", "exit"}
       /\ main_result.kind = "exit" => main_result.code = Some(0)
       /\ NoArtifacts

\* the kernel path handed to limage runner, when there is one
RunnerPath == cmdline[3]

GivenKernelPath ==
    /\ Len(cmdline) = 3
    /\ cmdline[2] = Word("runner")
    /\ cmdline[3] \in KernelPathSet
    /\ kernel_present
    /\ read_result.kind = "Ok"

\* the parent directory of the kernel path has a name
NamedParent ==
    /\ Len(RunnerPath) >= 2
    /\ RunnerPath[Len(RunnerPath) - 1] \notin {RootDir, ParentDir, CurDir}

\* the parent directory is named deps, or its name starts with rustdoctest
TestParent ==
    /\ NamedParent
    /\ \/ RunnerPath[Len(RunnerPath) - 1] = <<"deps">>
       \/ RunnerPath[Len(RunnerPath) - 1][1] = "rustdoctest"

\* runner has taken the mode from the path
ModeTaken == mpc \in {"build", "building", "running", "done"}

PathErrors ==
    {"kernel executable has no parent",
     "kernel executable's parent has no file name"}

\* run has gone the way of its mode: in test mode under the bounded wait,
\* with a classified result; in normal mode with no bounded wait and the
\* exit code of the emulator handed on
RanInItsMode ==
    IF is_test
       THEN /\ \E i \in 1 .. Len(ops) : ops[i] = "wait_timeout"
            /\ test_result \in {Some("Success"), Some("Failure"), Some("Timeout")}
       ELSE /\ \A i \in 1 .. Len(ops) : ops[i] # "wait_timeout"
            /\ test_result = None
            /\ child.status.kind = "exited" => run_result.code = child.status.code

\* C19 as stated: every kernel path is run, in test mode (under the timeout,
\* its exit code classified) when its parent directory is named deps or
\* starts with rustdoctest, and in normal mode (exit code passed through)
\* otherwise; no kernel path is turned down for what it is.
C19_EveryPathGetsItsMode ==
    (GivenKernelPath /\ ModeTaken) =>
       /\ main_result.err \notin PathErrors
       /\ is_test = TestParent
       /\ (rpc = "done" /\ run_result.kind = "Ok") => RanInItsMode

\* C19, amended: a kernel path whose parent directory is named deps, or has
\* a name that starts with rustdoctest, is run in test mode, under the
\* timeout and with exit-code classification; every other kernel path whose
\* parent directory has a name is run in normal mode with exit-code
\* passthrough; a kernel path whose parent directory has no name (a bare
\* file name, a file under the root, under . or under ..) is turned down
\* with an error, and neither build nor run is called.
C19_NamedParentGetsItsMode ==
    GivenKernelPath =>
       /\ (NamedParent /\ ModeTaken) =>
             /\ main_result.err \notin PathErrors
             /\ is_test = TestParent
             /\ (rpc = "done" /\ run_result.kind = "Ok") => RanInItsMode
       /\ ~NamedParent =>
             /\ mpc \notin {"build", "building", "running"}
             /\ mpc = "done" =>
                   main_result = Err("kernel executable's parent has no file name")
             /\ nbuilds = 0
             /\ rpc = "idle"

C19_Witness ==
    /\ GivenKernelPath
    /\ RunnerPath = <<<<"tmp">>, <<"rustdoctest", "AbC">>, Kernel>>
    /\ mpc = "done"
    /\ is_test
    /\ test_result = Some("Success")
    /\ main_result = Exit(0)

-----------------------------------------------------------------------------
(* Further properties of the supervised run (SpecRun) *)

\* C21: in test mode the kill is issued only when the bounded wait ended
\* with the deadline over and the emulator still running; an emulator that
\* was found ended by the bounded wait is never killed, never waited on
\* again and never classified Timeout; one that was killed is never
\* classified Success or Failure; and once run has returned nothing more is
\* done.
C21_ExitedAndTimeoutExclusive ==
    /\ [](is_test =>
            /\ rpc \in {"kill", "wait"} =>
                  /\ elapsed >= config.test_timeout
                  /\ test_result = None
            /\ (\E i \in 1 .. Len(ops) : ops[i] = "kill") =>
                  /\ SubSeq(ops, 1, 3) = <<"spawn", "wait_timeout", "kill">>
                  /\ elapsed >= config.test_timeout
                  /\ test_result \notin {Some("Success"), Some("Failure")}
            /\ test_result \in {Some("Success"), Some("Failure")} =>
                  /\ ops = <<"spawn", "wait_timeout">>
                  /\ rpc = "done"
            /\ test_result = Some("Timeout") =>
                  /\ ops = <<"spawn", "wait_timeout", "kill", "wait">>
                  /\ rpc = "done")
    /\ [][/\ (is_test /\ rpc # "kill" /\ rpc' = "kill") =>
                child.state = "running"
          /\ (is_test /\ rpc = "wait_timeout" /\ child.state = "zombie"
                /\ rpc' # rpc) => rpc' = "done"
          /\ rpc = "done" =>
                /\ rpc' = "done"
                /\ ops' = ops
                /\ test_result' = test_result
                /\ run_result' = run_result]_vars

C21_Witness ==
    /\ is_test
    /\ rpc = "done"
    /\ config.test_timeout > 0
    /\ test_result = Some("Timeout")
    /\ ops = <<"spawn", "wait_timeout", "kill", "wait">>
    /\ child.state = "reaped"

\* the error of the failure point at which the supervised run stands; the
\* bounded wait has either failed or reaped an emulator without exit code
ErrorOfFailurePoint(reaped) ==
    CASE rpc = "spawn" -> "QemuTestCommand"
      [] rpc = "wait_timeout" /\ reaped -> "NoQemuExitCode"
      [] rpc = "wait_timeout" -> "WaitWithTimeout"
      [] rpc = "kill" -> "KillQemu"
      [] rpc = "wait" -> "WaitForQemu"
      [] OTHER -> "none"

\* C22: each failure point of the supervised run gives its own error and no
\* TestResult: the spawn, the bounded wait, the kill, the wait after the
\* kill, and an emulator found ended without an exit code.  An emulator
\* ended by a signal and reaped by the bounded wait gives the
\* missing-exit-code error, not Failure, and after a failed spawn neither a
\* wait nor a kill is tried.
C22_DistinctErrors ==
    /\ [](is_test =>
            /\ run_result.kind = "Err" => test_result = None
            /\ run_result = Err("QemuTestCommand") =>
                  ops = << >> /\ child = NoChild
            /\ run_result = Err("WaitWithTimeout") =>
                  ops = <<"spawn", "wait_timeout">> /\ child.state # "reaped"
            /\ run_result = Err("KillQemu") =>
                  ops = <<"spawn", "wait_timeout", "kill">>
            /\ run_result = Err("WaitForQemu") =>
                  ops = <<"spawn", "wait_timeout", "kill", "wait">>
            /\ run_result = Err("NoQemuExitCode") =>
                  /\ ops = <<"spawn", "wait_timeout">>
                  /\ child = [state |-> "reaped", status |-> Signaled]
            /\ (/\ rpc = "done"
                /\ ops = <<"spawn", "wait_timeout">>
                /\ child = [state |-> "reaped", status |-> Signaled]) =>
                  /\ run_result = Err("NoQemuExitCode")
                  /\ test_result = None)
    /\ [][(is_test /\ rpc # "done" /\ rpc' = "done" /\ test_result' = None) =>
             /\ run_result' = Err(ErrorOfFailurePoint(child'.state = "reaped"))
             /\ ErrorOfFailurePoint(child'.state = "reaped") # "none"]_vars

C22_Witness ==
    /\ is_test
    /\ rpc = "done"
    /\ ops = <<"spawn", "wait_timeout">>
    /\ child = [state |-> "reaped", status |-> Signaled]
    /\ elapsed < config.test_timeout
    /\ run_result = Err("NoQemuExitCode")

-----------------------------------------------------------------------------
(* Further properties of the build pipeline *)

\* the steps that create a working directory
CreateDirSteps ==
    {"create_dir_ovmf", "create_dir_target", "create_dir_limine",
     "create_dir_iso_boot_limine", "create_dir_iso_efi_boot",
     "create_dir_iso_boot_kernel", "create_dir_image_parent"}

\* C23: a build that failed returned a BuildError that tells the failing
\* step: it did not abort the process; a working directory that could not
\* be created gives CreateDirectoryFailed, and no other step gives it.
C23_ErrorKindTellsStep ==
    \A p \in active :
       (bpc[p] = "done" /\ bresult[p] # "Ok" /\ blog[p] # << >>) =>
          /\ bresult[p] # "panic"
          /\ blog[p][Len(blog[p])] \in CreateDirSteps =>
                bresult[p] = "CreateDirectoryFailed"
          /\ bresult[p] = "CreateDirectoryFailed" =>
                blog[p][Len(blog[p])] \in CreateDirSteps

-----------------------------------------------------------------------------
(* Further properties of the program run (SpecMain) *)

\* C24: in the run command the emulator is spawned only after the build of
\* the same invocation has returned success; when the build has returned an
\* error the emulator is never spawned, run is never entered, and the
\* invocation ends with that error.
C24_SpawnOnlyAfterBuildOk ==
    /\ (rpc # "idle" \/ child # NoChild \/ ops # << >>) =>
          /\ command.cmd = "Run"
          /\ nbuilds = 1
          /\ bpc[1] = "done"
          /\ bresult[1] = "Ok"
    /\ (bpc[1] = "done" /\ bresult[1] # "Ok") =>
          /\ rpc = "idle"
          /\ child = NoChild
          /\ ops = << >>
          /\ mpc \in {"building", "done"}
          /\ mpc = "done" =>
                /\ main_result.kind \in {"Err", "panic"}
                /\ bresult[1] # "panic" => main_result = Err(bresult[1])

C24_Witness ==
    /\ command.cmd = "Run"
    /\ bresult[1] = "Ok"
    /\ child.state = "running"
    /\ mpc = "running"

\* builder p executes a step of its build
TakesStep(p) == Len(blog'[p]) = Len(blog[p]) + 1

\* the step builder p executes
StepTaken(p) == blog'[p][Len(blog'[p])]

\* C25: no rollback and no retry.  No step of a build, failing or not,
\* removes a file or a directory: what the earlier steps of the build have
\* produced is left as it was (the image and the filesystem image are
\* written anew only by the one step that makes them, and umount ends the
\* mount, which is no file); a build that has returned an error executes
\* nothing more; and no step is executed a second time within a build.
C25_NoRollbackNoRetry ==
    [][\A p \in active :
          /\ TakesStep(p) =>
                /\ fs_ovmf \subseteq fs_ovmf'
                /\ limine_dir.exists => limine_dir'.exists
                /\ limine_dir.files \subseteq limine_dir'.files
                /\ iso_root \subseteq iso_root'
                /\ StepTaken(p) # "xorriso" =>
                      /\ image.exists => image'.exists
                      /\ image.installed => image'.installed
                /\ StepTaken(p) # "dd" =>
                      fs_image \ {"mounted"} \subseteq fs_image'
                /\ \A i \in 1 .. Len(blog[p]) : blog[p][i] # StepTaken(p)
                /\ bpc[p] # "done"
                /\ bresult[p] = "none"
          /\ (bpc[p] = "done" /\ bresult[p] # "Ok" /\ blog'[p] = blog[p]
                /\ tampered' = tampered) =>
                fsvars' = fsvars]_vars

C25_Witness ==
    /\ bpc[1] = "done"
    /\ bresult[1] = "CopyKernelBinaryFailed"
    /\ fs_ovmf = {"code", "vars"}
    /\ limine_dir.files = RequiredSet
    /\ "limine.conf" \in iso_root
    /\ InLog(1, "git_clone")

\* builder p's current build follows a failed clone: a clone was issued
\* before it started and it found the directory present and empty (an outside
\* deletion removes one file only, and a directory present from the beginning
\* is never cloned into)
FollowsFailedClone(p) ==
    /\ bpc[p] # "idle"
    /\ clones >= 1
    /\ start_limine[p].exists
    /\ start_limine[p].files = {}

\* C26: over a sequence of builds the clone command is issued at most once, by
\* a build that finds the bootloader directory absent; after a clone attempt
\* the directory exists whether or not the clone succeeded; and a build that
\* follows a failed clone issues no clone, does not get past bootloader binary
\* staging, and fails there when it reaches it.
C26_CloneAtMostOnce ==
    /\ [](/\ clones <= 1
          /\ clones >= 1 => limine_dir.exists
          /\ \A p \in active :
                FollowsFailedClone(p) =>
                   /\ ~InLog(p, "git_clone")
                   /\ ~InLog(p, "copy_kernel")
                   /\ bresult[p] # "Ok"
                   /\ InLog(p, "copy_limine_binary") =>
                         bresult[p] = "CopyLimineBinaryFailed")
    /\ [][clones' # clones =>
             /\ clones = 0
             /\ ~limine_dir.exists
             /\ \E p \in active : TakesStep(p) /\ StepTaken(p) = "git_clone"]_vars

\* the build after a failed clone has failed at bootloader binary staging
\* without cloning
C26_Witness ==
    /\ FollowsFailedClone(1)
    /\ nbuilds = 2
    /\ clones = 1
    /\ bpc[1] = "done"
    /\ bresult[1] = "CopyLimineBinaryFailed"
    /\ ~InLog(1, "git_clone")
    /\ limine_dir = [exists |-> TRUE, files |-> {}]

\* C27: whatever Config read_config has accepted, run ends by returning an
\* exit code or a RunError; it never aborts while it assembles the command,
\* an empty run-command list included.
C27_RunNeverAborts ==
    rpc = "done" => run_result.kind \in {"Ok", "Err"}

====
